---------------------------- MODULE Spec2Model ----------------------------
(***************************************************************************)
(* A model of app.py: the CSV loader (parse_csv), the coordinate           *)
(* validator, the marker renderer (add_layer, popup_html, tooltip_html),   *)
(* the map composer (build_map) and the render cycle (main) with the       *)
(* st.cache_data memo in front of parse_csv.                               *)
(*                                                                         *)
(* Text (column names, CSV cells, formatted numbers) is a sequence of      *)
(* one-character strings, so that lowercasing, substring tests, number     *)
(* parsing and number formatting are computed and not assumed.             *)
(***************************************************************************)
EXTENDS Integers, Sequences, FiniteSets, TLC

(***************************************************************************)
(* Bounds of the model.                                                    *)
(***************************************************************************)
MaxCols == 3
MaxRows == 2

(***************************************************************************)
(* Text helpers.                                                           *)
(***************************************************************************)
UpperAlpha == <<"A","B","C","D","E","F","G","H","I","J","K","L","M",
                "N","O","P","Q","R","S","T","U","V","W","X","Y","Z">>
LowerAlpha == <<"a","b","c","d","e","f","g","h","i","j","k","l","m",
                "n","o","p","q","r","s","t","u","v","w","x","y","z">>
Digits == <<"0","1","2","3","4","5","6","7","8","9">>

RangeOf(s) == {s[i] : i \in DOMAIN s}

\* str.lower() on one character
LowerChar(c) ==
    IF \E i \in DOMAIN UpperAlpha : UpperAlpha[i] = c
    THEN LowerAlpha[CHOOSE i \in DOMAIN UpperAlpha : UpperAlpha[i] = c]
    ELSE c

\* str.lower()
Lower(s) == [i \in DOMAIN s |-> LowerChar(s[i])]

\* the Python test `t in s` on two strings
Contains(s, t) ==
    \E i \in 0..(Len(s) - Len(t)) : SubSeq(s, i + 1, i + Len(t)) = t

IsDigit(c) == \E i \in DOMAIN Digits : Digits[i] = c
DigitVal(c) == (CHOOSE i \in DOMAIN Digits : Digits[i] = c) - 1

RECURSIVE DigitsVal(_)
DigitsVal(s) ==
    IF Len(s) = 0 THEN 0
    ELSE 10 * DigitsVal(SubSeq(s, 1, Len(s) - 1)) + DigitVal(s[Len(s)])

AllDigits(s) == Len(s) > 0 /\ \A i \in DOMAIN s : IsDigit(s[i])

RECURSIVE NatToText(_)
NatToText(n) ==
    IF n < 10 THEN <<Digits[n + 1]>>
    ELSE NatToText(n \div 10) \o <<Digits[(n % 10) + 1]>>

(***************************************************************************)
(* Values: what a cell of a DataFrame, or an argument of                   *)
(* validate_coordinates, can be.                                           *)
(*   num  a finite number (the model keeps whole degrees)                  *)
(*   inf  an infinity, n = 1 or -1                                         *)
(*   nan  NaN, also pandas' missing value                                  *)
(*   str  a string                                                         *)
(*   none Python's None                                                    *)
(***************************************************************************)
Num(n)  == [k |-> "num",  n |-> n, s |-> <<>>]
Inf(n)  == [k |-> "inf",  n |-> n, s |-> <<>>]
NaN     == [k |-> "nan",  n |-> 0, s |-> <<>>]
Str(s)  == [k |-> "str",  n |-> 0, s |-> s]
None    == [k |-> "none", n |-> 0, s |-> <<>>]

\* The number a text spells, for the texts the model uses: an optional sign
\* and digits, "inf", "nan". ok = FALSE when the text spells no number.
ParseSigned(neg, body) ==
    IF AllDigits(body)
    THEN [ok |-> TRUE, v |-> Num(IF neg THEN 0 - DigitsVal(body) ELSE DigitsVal(body))]
    ELSE IF Lower(body) = <<"i","n","f">>
    THEN [ok |-> TRUE, v |-> Inf(IF neg THEN -1 ELSE 1)]
    ELSE IF Lower(body) = <<"n","a","n">>
    THEN [ok |-> TRUE, v |-> NaN]
    ELSE [ok |-> FALSE, v |-> NaN]

ParseNumber(s) ==
    IF Len(s) > 0 /\ s[1] = "-"
    THEN ParseSigned(TRUE, SubSeq(s, 2, Len(s)))
    ELSE ParseSigned(FALSE, s)

\* Python's float(x): raised = TRUE stands for TypeError / ValueError
FloatOfText(p) == [raised |-> ~p.ok, v |-> p.v]

PyFloat(x) ==
    CASE x.k = "none" -> [raised |-> TRUE, v |-> NaN]
      [] x.k = "str"  -> FloatOfText(ParseNumber(x.s))
      [] OTHER        -> [raised |-> FALSE, v |-> x]

\* a <= b on floats: false when either is NaN
FloatLe(a, b) ==
    CASE a.k = "nan" \/ b.k = "nan" -> FALSE
      [] a.k = "inf" -> a.n < 0 \/ (b.k = "inf" /\ b.n > 0)
      [] b.k = "inf" -> b.n > 0
      [] OTHER       -> a.n <= b.n

LatMax == 90
LonMax == 180

\* InRanges with the upper latitude limit excluded
InRanges_OpenTop(lat, lon) ==
    /\ FloatLe(Num(0 - LatMax), lat) /\ FloatLe(lat, Num(LatMax)) /\ lat # Num(LatMax)
    /\ FloatLe(Num(0 - LonMax), lon) /\ FloatLe(lon, Num(LonMax))

\* line 30, on the two floats
InRanges(lat, lon) ==
    /\ FloatLe(Num(0 - LatMax), lat) /\ FloatLe(lat, Num(LatMax))
    /\ FloatLe(Num(0 - LonMax), lon) /\ FloatLe(lon, Num(LonMax))

Validated2(flat, flon) ==
    IF flat.raised \/ flon.raised THEN FALSE ELSE InRanges(flat.v, flon.v)

validate_coordinates(lat, lon) == Validated2(PyFloat(lat), PyFloat(lon))


(***************************************************************************)
(* DataFrames. A frame is its column labels, in order, and its rows, each  *)
(* a sequence of values, one per column. Labels may repeat (pandas allows  *)
(* that after a rename).                                                   *)
(***************************************************************************)
EmptyFrame == [columns |-> <<>>, rows |-> <<>>]          \* pd.DataFrame()

FrameLen(df) == Len(df.rows)                              \* len(df)
FrameEmpty(df) == Len(df.rows) = 0 \/ Len(df.columns) = 0 \* df.empty

HasColumn(cols, name) == \E j \in DOMAIN cols : cols[j] = name
CountColumn(cols, name) == Cardinality({j \in DOMAIN cols : cols[j] = name})
ColIdx(cols, name) ==
    CHOOSE j \in DOMAIN cols :
        cols[j] = name /\ \A h \in DOMAIN cols : cols[h] = name => j <= h

\* df[name] for a label that occurs once
Column(df, name) ==
    [i \in DOMAIN df.rows |-> df.rows[i][ColIdx(df.columns, name)]]

\* df[name] = vals: replaces the column when the label exists, appends it
\* as the last column otherwise
SetColumn(df, name, vals) ==
    IF HasColumn(df.columns, name)
    THEN [columns |-> df.columns,
          rows |-> [i \in DOMAIN df.rows |->
                      [df.rows[i] EXCEPT ![ColIdx(df.columns, name)] = vals[i]]]]
    ELSE [columns |-> Append(df.columns, name),
          rows |-> [i \in DOMAIN df.rows |-> Append(df.rows[i], vals[i])]]

\* the subsequence of s at the indexes for which keep[i] holds, in order
RECURSIVE KeepWhere(_, _)
KeepWhere(s, keep) ==
    IF Len(s) = 0 THEN <<>>
    ELSE LET n    == Len(s)
             init == KeepWhere(SubSeq(s, 1, n - 1), SubSeq(keep, 1, n - 1))
         IN  IF keep[n] THEN Append(init, s[n]) ELSE init

\* df.loc[mask]
LocMask(df, mask) == [columns |-> df.columns, rows |-> KeepWhere(df.rows, mask)]

\* df.rename(columns = {"__lat": "latitude", "__lon": "longitude"})
TmpLat == <<"_","_","l","a","t">>
TmpLon == <<"_","_","l","o","n">>
CanonLat == <<"l","a","t","i","t","u","d","e">>
CanonLon == <<"l","o","n","g","i","t","u","d","e">>

RenameTmp(df) ==
    [columns |-> [j \in DOMAIN df.columns |->
                    IF df.columns[j] = TmpLat THEN CanonLat
                    ELSE IF df.columns[j] = TmpLon THEN CanonLon
                    ELSE df.columns[j]],
     rows |-> df.rows]

\* df.drop(columns = ["__lat", "__lon"], errors = "ignore")
DropTmp(df) ==
    LET keep == [j \in DOMAIN df.columns |-> df.columns[j] \notin {TmpLat, TmpLon}]
    IN  [columns |-> KeepWhere(df.columns, keep),
         rows |-> [i \in DOMAIN df.rows |-> KeepWhere(df.rows[i], keep)]]

(***************************************************************************)
(* pd.read_csv. A file's content is its header (the column names) and its  *)
(* data rows, every cell a text; the empty text is an empty field. A file  *)
(* with no header line is an empty file, on which read_csv raises          *)
(* EmptyDataError.                                                         *)
(***************************************************************************)
SpellsNumber(p) == p.ok /\ p.v.k # "nan"
CellIsNumber(t) == SpellsNumber(ParseNumber(t))

\* the dtype read_csv infers for column j: numeric when there is at least one
\* row and every field is empty or spells a number, object otherwise
InfersNumeric(f, j) ==
    /\ Len(f.rows) > 0
    /\ \A i \in DOMAIN f.rows : f.rows[i][j] = <<>> \/ CellIsNumber(f.rows[i][j])

ReadCell(f, i, j) ==
    IF f.rows[i][j] = <<>> THEN NaN
    ELSE IF InfersNumeric(f, j) THEN ParseNumber(f.rows[i][j]).v
    ELSE Str(f.rows[i][j])

read_csv(f) ==
    IF Len(f.cols) = 0
    THEN [raised |-> TRUE, df |-> EmptyFrame]
    ELSE [raised |-> FALSE,
          df |-> [columns |-> f.cols,
                  rows |-> [i \in DOMAIN f.rows |->
                              [j \in DOMAIN f.cols |-> ReadCell(f, i, j)]]]]

\* whether column j of a frame has a numeric dtype (np.number)
IsNumericDtype(df, j) ==
    /\ Len(df.rows) > 0
    /\ \A i \in DOMAIN df.rows : df.rows[i][j].k \in {"num", "inf", "nan"}

\* pd.to_numeric(v, errors = "coerce") on one value
CoerceText(p) == IF p.ok THEN p.v ELSE NaN

to_numeric(v) ==
    CASE v.k = "str"  -> CoerceText(ParseNumber(v.s))
      [] v.k = "none" -> NaN
      [] OTHER        -> v

(***************************************************************************)
(* parse_csv: column detection.                                            *)
(***************************************************************************)
NoCol == <<>>       \* Python's None where a column name is expected

LatTokens == { <<"l","a","t">>, CanonLat }
LonTokens == { <<"l","o","n">>, <<"l","o","n","g">>, CanonLon, <<"l","n","g">> }
PostalTokens ==
    { <<"p","o","s","t","a","l">>,
      <<"p","o","s","t","a","l"," ","c","o","d","e">>,
      <<"z","i","p">>,
      <<"z","i","p"," ","c","o","d","e">>,
      <<"z","i","p","c","o","d","e">>,
      <<"p","o","s","t","_","c","o","d","e">>,
      <<"p","i","n","c","o","d","e">>,
      <<"z","i","p","_","c","o","d","e">> }
NameWords ==
    { <<"n","a","m","e">>, <<"t","i","t","l","e">>, <<"l","a","b","e","l">>,
      <<"l","o","c","a","t","i","o","n","_","n","a","m","e">> }

AnyTokenIn(tokens, c) == \E t \in tokens : Contains(Lower(c), t)

MatchesLat(c) == AnyTokenIn(LatTokens, c)
MatchesLon(c) == AnyTokenIn(LonTokens, c)
MatchesPostal(c) == AnyTokenIn(PostalTokens, c)
MatchesName(c) == Lower(c) \in NameWords

\* the first label of cols, in order, at which hit holds; NoCol when none does
FirstWhere(cols, hit) ==
    IF \E j \in DOMAIN cols : hit[j]
    THEN cols[CHOOSE j \in DOMAIN cols : hit[j] /\ \A h \in DOMAIN cols : hit[h] => j <= h]
    ELSE NoCol

FirstLat(cols) == FirstWhere(cols, [j \in DOMAIN cols |-> MatchesLat(cols[j])])
FirstLon(cols) == FirstWhere(cols, [j \in DOMAIN cols |-> MatchesLon(cols[j])])
FirstPostal(cols) == FirstWhere(cols, [j \in DOMAIN cols |-> MatchesPostal(cols[j])])
FirstName(cols) == FirstWhere(cols, [j \in DOMAIN cols |-> MatchesName(cols[j])])

\* df.select_dtypes(include = [np.number]).columns.tolist()
NumericColumns(df) ==
    KeepWhere(df.columns, [j \in DOMAIN df.columns |-> IsNumericDtype(df, j)])

\* Fallback that keeps a column found by name and fills only the missing one
Fallback_KeepFound(byLat, byLon, nums) ==
    IF byLat = NoCol \/ byLon = NoCol
    THEN IF Len(nums) >= 2
         THEN [resolved |-> TRUE,
               lat_col |-> IF byLat = NoCol THEN nums[1] ELSE byLat,
               lon_col |-> IF byLon = NoCol THEN nums[2] ELSE byLon]
         ELSE [resolved |-> FALSE, lat_col |-> NoCol, lon_col |-> NoCol]
    ELSE [resolved |-> TRUE, lat_col |-> byLat, lon_col |-> byLon]

\* lines 45-50, given the columns found by name and the numeric columns
Fallback(byLat, byLon, nums) ==
    IF byLat = NoCol \/ byLon = NoCol
    THEN IF Len(nums) >= 2
         THEN [resolved |-> TRUE, lat_col |-> nums[1], lon_col |-> nums[2]]
         ELSE [resolved |-> FALSE, lat_col |-> NoCol, lon_col |-> NoCol]
    ELSE [resolved |-> TRUE, lat_col |-> byLat, lon_col |-> byLon]

\* lines 40-50: the lat/lon columns, or resolved = FALSE on the early return
DetectLatLon(df) ==
    Fallback(FirstLat(df.columns), FirstLon(df.columns), NumericColumns(df))

(***************************************************************************)
(* parse_csv: coercion, validation, result.                                *)
(***************************************************************************)
\* tmp with the two coerced columns __lat and __lon (lines 53-55)
CoercedColumn(df, col) == [i \in DOMAIN df.rows |-> to_numeric(Column(df, col)[i])]
WithCoerced(df, tmpname, col) == SetColumn(df, tmpname, CoercedColumn(df, col))

Coerced(df, lat_col, lon_col) ==
    WithCoerced(WithCoerced(df, TmpLat, lat_col), TmpLon, lon_col)

NotNa(v) == v.k \notin {"nan", "none"}
Between(v, lo, hi) == FloatLe(Num(lo), v) /\ FloatLe(v, Num(hi))

\* lines 56-59
\* MaskAt without the longitude range test
MaskAt_LatOnly(la, lo) ==
    /\ NotNa(la) /\ NotNa(lo)
    /\ Between(la, 0 - LatMax, LatMax)

MaskAt(la, lo) ==
    /\ NotNa(la) /\ NotNa(lo)
    /\ Between(la, 0 - LatMax, LatMax)
    /\ Between(lo, 0 - LonMax, LonMax)

RowMask(tmp) ==
    [i \in DOMAIN tmp.rows |-> MaskAt(Column(tmp, TmpLat)[i], Column(tmp, TmpLon)[i])]

\* len(mask) in place of mask.sum()
CountTrue_Len(mask) == Len(mask)

CountTrue(mask) == Cardinality({i \in DOMAIN mask : mask[i]})

\* lines 60-62
ValidFrame(tmp, mask) == DropTmp(RenameTmp(LocMask(tmp, mask)))

ParseResult(valid, ok, bad, postal, name, lat, lon) ==
    [raised |-> FALSE, valid |-> valid, valid_count |-> ok, invalid_count |-> bad,
     postal_col |-> postal, name_col |-> name, lat_col |-> lat, lon_col |-> lon]

ParseRaised ==
    [raised |-> TRUE, valid |-> EmptyFrame, valid_count |-> 0, invalid_count |-> 0,
     postal_col |-> NoCol, name_col |-> NoCol, lat_col |-> NoCol, lon_col |-> NoCol]

\* lines 64-71, given the valid frame and the mask
Returned(n, valid, mask, lat_col, lon_col) ==
    ParseResult(valid, CountTrue(mask), n - CountTrue(mask),
                FirstPostal(valid.columns), FirstName(valid.columns),
                lat_col, lon_col)

\* lines 56-71, given tmp
Validated(n, tmp, mask, lat_col, lon_col) ==
    Returned(n, ValidFrame(tmp, mask), mask, lat_col, lon_col)

\* lines 45-71, given the frame read and the columns detected
Parsed(df, d) ==
    IF ~d.resolved
    THEN ParseResult(EmptyFrame, 0, FrameLen(df), NoCol, NoCol, NoCol, NoCol)
    ELSE Validated(FrameLen(df), Coerced(df, d.lat_col, d.lon_col),
                   RowMask(Coerced(df, d.lat_col, d.lon_col)), d.lat_col, d.lon_col)

ParsedFrom(rd) == IF rd.raised THEN ParseRaised ELSE Parsed(rd.df, DetectLatLon(rd.df))

\* the body of parse_csv, on the content of the file at the path
parse_csv(f) == ParsedFrom(read_csv(f))

(***************************************************************************)
(* Formatting.                                                             *)
(***************************************************************************)
SignedText(n) == IF n < 0 THEN <<"-">> \o NatToText(0 - n) ELSE NatToText(n)

\* f"{v:.6f}" on a float (the model's numbers are whole)
Format6(v) ==
    CASE v.k = "num" -> SignedText(v.n) \o <<".","0","0","0","0","0","0">>
      [] v.k = "inf" -> IF v.n < 0 THEN <<"-","i","n","f">> ELSE <<"i","n","f">>
      [] OTHER       -> <<"n","a","n">>

\* f"{v}" on a cell value
ValueText(v) ==
    CASE v.k = "str" -> v.s
      [] v.k = "num" -> SignedText(v.n)
      [] v.k = "inf" -> IF v.n < 0 THEN <<"-","i","n","f">> ELSE <<"i","n","f">>
      [] v.k = "none" -> <<"N","o","n","e">>
      [] OTHER       -> <<"n","a","n">>

(***************************************************************************)
(* A row handed out by df.iterrows(): the frame's labels and one row's     *)
(* values. row[name] is a scalar only when the label occurs once.          *)
(***************************************************************************)
RowHas(cols, name) == HasColumn(cols, name)               \* name in row
RowGet(cols, row, name) == row[ColIdx(cols, name)]        \* row[name]
Scalar(cols, name) == CountColumn(cols, name) = 1

\* `col and col in row and pd.notna(row[col])`
Present(cols, row, col) ==
    col # NoCol /\ RowHas(cols, col) /\ NotNa(RowGet(cols, row, col))

Part(label, text) == [label |-> label, text |-> text]

PopupLat == <<"L","a","t","i","t","u","d","e">>
PopupLon == <<"L","o","n","g","i","t","u","d","e">>
StateCol == <<"s","t","a","t","e">>
CityCol == <<"c","i","t","y">>
AddressCol == <<"a","d","d","r","e","s","s">>

\* `row[name]:.6f` raises KeyError without the label and ValueError on a string
FormatFails(cols, row, name) ==
    \/ ~RowHas(cols, name)
    \/ ~Scalar(cols, name)
    \/ RowGet(cols, row, name).k \in {"str", "none"}

OptionalPart(cols, row, col, label) ==
    IF Present(cols, row, col)
    THEN <<Part(label, ValueText(RowGet(cols, row, col)))>>
    ELSE <<>>

popup_html(cols, row, postal_col, name_col) ==
    IF FormatFails(cols, row, PopupLat) \/ FormatFails(cols, row, PopupLon)
    THEN [raised |-> TRUE, parts |-> <<>>]
    ELSE [raised |-> FALSE,
          parts |->
              OptionalPart(cols, row, name_col, "Name")
           \o <<Part("Latitude", Format6(RowGet(cols, row, PopupLat)))>>
           \o <<Part("Longitude", Format6(RowGet(cols, row, PopupLon)))>>
           \o OptionalPart(cols, row, postal_col, "Postal Code")
           \o OptionalPart(cols, row, StateCol, "State")
           \o OptionalPart(cols, row, CityCol, "City")
           \o OptionalPart(cols, row, AddressCol, "Address")]

\* row.get(name) followed by float(...): raises on a non-scalar or a string
\* that spells no number
TooltipFails(cols, row, name) ==
    /\ RowHas(cols, name)
    /\ \/ ~Scalar(cols, name)
       \/ PyFloat(RowGet(cols, row, name)).raised

tooltip_html(cols, row, postal_col, name_col) ==
    IF /\ RowHas(cols, CanonLat) /\ RowHas(cols, CanonLon)
       /\ (TooltipFails(cols, row, CanonLat) \/ TooltipFails(cols, row, CanonLon))
    THEN [raised |-> TRUE, parts |-> <<>>]
    ELSE [raised |-> FALSE,
          parts |->
              OptionalPart(cols, row, name_col, "name")
           \o (IF RowHas(cols, CanonLat) /\ RowHas(cols, CanonLon)
               THEN <<Part("Latitude", Format6(PyFloat(RowGet(cols, row, CanonLat)).v)),
                      Part("Longitude", Format6(PyFloat(RowGet(cols, row, CanonLon)).v))>>
               ELSE <<Part("Latitude", <<"n","/","a">>),
                      Part("Longitude", <<"n","/","a">>)>>)
           \o OptionalPart(cols, row, postal_col, "Postal Code")]

(***************************************************************************)
(* add_layer.                                                              *)
(***************************************************************************)
Layer(name, mode, points, markers) ==
    [raised |-> FALSE, name |-> name, mode |-> mode,
     points |-> points, markers |-> markers]
LayerRaised(name) ==
    [raised |-> TRUE, name |-> name, mode |-> "none", points |-> <<>>, markers |-> <<>>]

\* the values of one row under every column labelled name, in column order
ValuesUnder(cols, row, name) ==
    KeepWhere(row, [j \in DOMAIN cols |-> cols[j] = name])

\* one folium.Marker of the detailed mode
MarkerWith(cols, row, color, tip, pop) ==
    [raised |-> \/ tip.raised \/ pop.raised
                \/ ~Scalar(cols, CanonLat) \/ ~Scalar(cols, CanonLon),
     location |-> <<ValuesUnder(cols, row, CanonLat),
                    ValuesUnder(cols, row, CanonLon)>>,
     tooltip |-> tip.parts, popup |-> pop.parts, color |-> color]

MarkerOf(cols, row, color, postal_col, name_col) ==
    MarkerWith(cols, row, color,
               tooltip_html(cols, row, postal_col, name_col),
               popup_html(cols, row, postal_col, name_col))

\* the branch add_layer takes on a non-empty frame (line 111)
TakesFastBranch(cluster, fast) == cluster /\ fast

\* lines 116-128, given the markers built
DetailedLayer(layer_name, ms) ==
    IF \E i \in DOMAIN ms : ms[i].raised
    THEN LayerRaised(layer_name)
    ELSE Layer(layer_name, "detailed", <<>>, ms)

add_layer(df, color, layer_name, cluster, fast, postal_col, name_col) ==
    IF FrameEmpty(df) THEN Layer(layer_name, "empty", <<>>, <<>>)
    ELSE IF TakesFastBranch(cluster, fast)
    THEN IF ~HasColumn(df.columns, CanonLat) \/ ~HasColumn(df.columns, CanonLon)
         THEN LayerRaised(layer_name)
         ELSE Layer(layer_name, "fast",
                    [i \in DOMAIN df.rows |->
                        ValuesUnder(df.columns, df.rows[i], CanonLat)
                        \o ValuesUnder(df.columns, df.rows[i], CanonLon)],
                    <<>>)
    ELSE DetailedLayer(layer_name,
                       [i \in DOMAIN df.rows |->
                          MarkerOf(df.columns, df.rows[i], color, postal_col, name_col)])

(***************************************************************************)
(* build_map. A mean is kept as the pair (sum, count).                     *)
(***************************************************************************)
RECURSIVE SumNums(_)
SumNums(s) ==
    IF Len(s) = 0 THEN 0 ELSE SumNums(SubSeq(s, 1, Len(s) - 1)) + s[Len(s)].n

Mean(vals) == [sum |-> SumNums(vals), n |-> Len(vals)]
MeanEq(a, b) == a.sum * b.n = b.sum * a.n
Exactly(v) == [sum |-> v, n |-> 1]

\* the frames pd.concat is given at lines 134-137: the conditional expression
\* parses as  A if not url_df.empty else (([] + B) if not store_df.empty else [])
ConcatOperands(url_df, store_df) ==
    IF ~FrameEmpty(url_df) THEN <<url_df>>
    ELSE IF ~FrameEmpty(store_df) THEN <<store_df>>
    ELSE <<>>

RECURSIVE PooledColumn(_, _)
PooledColumn(frames, name) ==
    IF Len(frames) = 0 THEN <<>>
    ELSE Column(frames[1], name) \o PooledColumn(Tail(frames), name)

MapOf(center, zoom, layers, controls) ==
    [raised |-> FALSE, center |-> center, zoom |-> zoom,
     layers |-> layers, controls |-> controls]
MapRaised ==
    [raised |-> TRUE, center |-> <<Exactly(0), Exactly(0)>>, zoom |-> 0,
     layers |-> <<>>, controls |-> <<>>]

\* lines 139-147, given the frames concatenated and the two layers
Composed(base, green, blue) ==
    IF \/ \E i \in DOMAIN base :
             \/ ~Scalar(base[i].columns, CanonLat)
             \/ ~Scalar(base[i].columns, CanonLon)
       \/ green.raised \/ blue.raised
    THEN MapRaised
    ELSE MapOf(<<Mean(PooledColumn(base, CanonLat)),
                 Mean(PooledColumn(base, CanonLon))>>,
               9, <<green, blue>>, <<"Fullscreen", "LayerControl">>)

build_map(url_df, store_df, cluster, fast_csv, postal1, postal2, name1, name2) ==
    IF FrameEmpty(url_df) /\ FrameEmpty(store_df)
    THEN MapOf(<<Exactly(20), Exactly(0)>>, 2, <<>>, <<>>)
    ELSE Composed(ConcatOperands(url_df, store_df),
                  add_layer(url_df, "green", "URL Data (Green)",
                            cluster, fast_csv, postal1, name1),
                  add_layer(store_df, "blue", "Store Data (Blue)",
                            cluster, fast_csv, postal2, name2))

(***************************************************************************)
(* main: one render cycle.                                                 *)
(***************************************************************************)
PATH_URL_CSV == "Spoutro August 2025 1(in).csv"
PATH_STORE_CSV == "Gerzeny_store.csv"
Paths == {PATH_URL_CSV, PATH_STORE_CSV}

ChartTop == 20
PreviewRows == 25

\* the values main starts from (lines 170-173)
DefaultResult == ParseResult(EmptyFrame, 0, 0, NoCol, NoCol, NoCol, NoCol)

NoEntry == [hit |-> FALSE, val |-> ParseRaised]

\* @st.cache_data on parse_csv: the memo is keyed by the argument, the path;
\* a call that raises stores nothing
Computed(entry, r) ==
    [res |-> r, entry |-> IF r.raised THEN entry ELSE [hit |-> TRUE, val |-> r]]

CachedParse(entry, f) ==
    IF entry.hit THEN [res |-> entry.val, entry |-> entry]
    ELSE Computed(entry, parse_csv(f))

Loaded(c) ==
    [status |-> IF c.res.raised THEN "raised" ELSE "ok",
     res |-> IF c.res.raised THEN DefaultResult ELSE c.res,
     entry |-> c.entry]

\* lines 175-178 and 180-183, for one path
LoadOne(entry, f) ==
    IF f.exists
    THEN Loaded(CachedParse(entry, f))
    ELSE [status |-> "missing", res |-> DefaultResult, entry |-> entry]

\* df.get(name): the column, or nothing when the frame has no such label
GetColumn(df, name) == IF HasColumn(df.columns, name) THEN Column(df, name) ELSE <<>>

NonScalarGet(df, name) == CountColumn(df.columns, name) > 1

\* the postal values main pools (lines 203-204, 225-226)
PostalValues(r) ==
    IF r.postal_col # NoCol /\ HasColumn(r.valid.columns, r.postal_col)
    THEN Column(r.valid, r.postal_col)
    ELSE <<>>

PostalListed(r) == r.postal_col # NoCol /\ HasColumn(r.valid.columns, r.postal_col)

DropNa(vals) == KeepWhere(vals, [i \in DOMAIN vals |-> NotNa(vals[i])])

\* lines 186-210
PooledPostal(u, s) == DropNa(PostalValues(u) \o PostalValues(s))

MetricsOf(u, s, total) ==
    [raised |-> /\ total > 0
                /\ \E df \in {u.valid, s.valid} :
                      NonScalarGet(df, CanonLat) \/ NonScalarGet(df, CanonLon),
     total |-> total,
     avg_lat |-> Mean(GetColumn(u.valid, CanonLat) \o GetColumn(s.valid, CanonLat)),
     avg_lon |-> Mean(GetColumn(u.valid, CanonLon) \o GetColumn(s.valid, CanonLon)),
     postal |-> IF u.postal_col # NoCol \/ s.postal_col # NoCol
                THEN IF PostalListed(u) \/ PostalListed(s)
                     THEN [found |-> TRUE, n |-> Cardinality(RangeOf(PooledPostal(u, s)))]
                     ELSE [found |-> TRUE, n |-> 0]
                ELSE [found |-> FALSE, n |-> 0]]

Metrics(u, s) == MetricsOf(u, s, FrameLen(u.valid) + FrameLen(s.valid))

\* lines 223-234: value_counts().head(20) of the pooled postal values as text;
\* equal counts keep the order of first occurrence
CountOf(texts, t) == Cardinality({i \in DOMAIN texts : texts[i] = t})
FirstOf(texts, t) ==
    CHOOSE i \in DOMAIN texts : texts[i] = t /\ \A h \in DOMAIN texts : texts[h] = t => i <= h
Ahead(texts, a, b) ==
    \/ CountOf(texts, a) > CountOf(texts, b)
    \/ CountOf(texts, a) = CountOf(texts, b) /\ FirstOf(texts, a) < FirstOf(texts, b)

Bars(texts) ==
    {[value |-> t, count |-> CountOf(texts, t)] :
        t \in {x \in RangeOf(texts) :
                 Cardinality({y \in RangeOf(texts) : Ahead(texts, y, x)}) < ChartTop}}

AsText(vals) == [i \in DOMAIN vals |-> ValueText(vals[i])]

Chart(u, s) ==
    IF PostalListed(u) \/ PostalListed(s)
    THEN [shown |-> TRUE, bars |-> Bars(AsText(PooledPostal(u, s)))]
    ELSE [shown |-> FALSE, bars |-> {}]

\* lines 237-248, for one dataset
Preview(r) ==
    IF ~FrameEmpty(r.valid)
    THEN [shown |-> TRUE, valid |-> r.valid_count, invalid |-> r.invalid_count,
          rows |-> SubSeq(r.valid.rows, 1,
                          IF FrameLen(r.valid) < PreviewRows
                          THEN FrameLen(r.valid) ELSE PreviewRows)]
    ELSE [shown |-> FALSE, valid |-> 0, invalid |-> 0, rows |-> <<>>]

NoMetrics == [raised |-> FALSE, total |-> 0, avg_lat |-> Mean(<<>>), avg_lon |-> Mean(<<>>),
              postal |-> [found |-> FALSE, n |-> 0]]
NoChart == [shown |-> FALSE, bars |-> {}]
NoPreview == [shown |-> FALSE, valid |-> 0, invalid |-> 0, rows |-> <<>>]

\* What one run of main leaves on the page. stage is "done" when the script
\* ran to its end and otherwise names the step whose exception ended it;
\* what that step and the later ones would have drawn is absent.
Cycle(stage, cl, fa, lu, ls, m, mp, ch, pu, ps) ==
    [stage |-> stage, cluster |-> cl, fast_csv |-> fa,
     load |-> [p \in Paths |-> IF p = PATH_URL_CSV THEN lu.status ELSE ls.status],
     res  |-> [p \in Paths |-> IF p = PATH_URL_CSV THEN lu.res ELSE ls.res],
     metrics |-> m, map |-> mp, chart |-> ch,
     preview |-> [p \in Paths |-> IF p = PATH_URL_CSV THEN pu ELSE ps]]

Skipped == [status |-> "skipped", res |-> DefaultResult, entry |-> NoEntry]
NoMap == MapOf(<<Exactly(0), Exactly(0)>>, 0, <<>>, <<>>)

\* lines 212-248, given the metrics and the map
Drawn(cl, fa, lu, ls, m, mp) ==
    IF mp.raised
    THEN Cycle("map", cl, fa, lu, ls, m, NoMap, NoChart, NoPreview, NoPreview)
    ELSE Cycle("done", cl, fa, lu, ls, m, mp, Chart(lu.res, ls.res),
               Preview(lu.res), Preview(ls.res))

\* lines 185-248, given the two datasets and the metrics
Measured(cl, fa, lu, ls, m) ==
    IF m.raised
    THEN Cycle("metrics", cl, fa, lu, ls, NoMetrics, NoMap, NoChart, NoPreview, NoPreview)
    ELSE Drawn(cl, fa, lu, ls, m,
               build_map(lu.res.valid, ls.res.valid, cl, fa,
                         lu.res.postal_col, ls.res.postal_col,
                         lu.res.name_col, ls.res.name_col))

\* lines 180-248, given the URL dataset
AfterUrl(cl, fa, lu, ls) ==
    IF ls.status = "raised"
    THEN Cycle("load_store", cl, fa, lu, ls, NoMetrics, NoMap, NoChart, NoPreview, NoPreview)
    ELSE Measured(cl, fa, lu, ls, Metrics(lu.res, ls.res))

LoadedBoth(cl, fa, memo, lu, ls) ==
    [page |-> AfterUrl(cl, fa, lu, ls),
     memo |-> [p \in Paths |-> IF p = PATH_URL_CSV THEN lu.entry ELSE ls.entry]]

\* the page of one run, given what loading the URL path gave; an exception
\* there ends the run before the Store path is looked at
PageOf(fs, memo, cl, fa, lu) ==
    IF lu.status = "raised"
    THEN [page |-> Cycle("load_url", cl, fa, lu, Skipped, NoMetrics, NoMap,
                         NoChart, NoPreview, NoPreview),
          memo |-> memo]
    ELSE LoadedBoth(cl, fa, memo, lu,
                    LoadOne(memo[PATH_STORE_CSV], fs[PATH_STORE_CSV]))

main(fs, memo, cl, fa) ==
    PageOf(fs, memo, cl, fa, LoadOne(memo[PATH_URL_CSV], fs[PATH_URL_CSV]))

(***************************************************************************)
(* Inputs: the texts, headers and file contents the checks draw from.      *)
(***************************************************************************)
N_lat == <<"l","a","t">>
N_lng == <<"l","n","g">>
N_name == <<"n","a","m","e">>
N_zip == <<"z","i","p">>
N_id == <<"i","d">>
N_count == <<"c","o","u","n","t">>
N_plate == <<"p","l","a","t","e">>

T_0 == <<"0">>
T_10 == <<"1","0">>
T_20 == <<"2","0">>
T_90 == <<"9","0">>
T_91 == <<"9","1">>
T_180 == <<"1","8","0">>
T_m91 == <<"-","9","1">>
T_m181 == <<"-","1","8","1">>
T_x == <<"x">>
T_A == <<"A">>
T_B == <<"B">>
T_empty == <<>>

\* every sequence over S of length at most n
RECURSIVE SeqsUpTo(_, _)
SeqsUpTo(S, n) ==
    IF n = 0 THEN {<<>>}
    ELSE LET shorter == SeqsUpTo(S, n - 1)
         IN  shorter \cup {Append(q, x) : q \in {r \in shorter : Len(r) = n - 1}, x \in S}

Injective(q) == \A i, j \in DOMAIN q : q[i] = q[j] => i = j

\* read_csv never returns two columns with one label
HeadersUpTo(names, n) == {h \in SeqsUpTo(names, n) : Len(h) > 0 /\ Injective(h)}

\* the rows of a file under header h: one cell per column, from cells(name)
RowsFor(h, cells(_)) == {r \in [DOMAIN h -> UNION {cells(h[j]) : j \in DOMAIN h}] :
                            \A j \in DOMAIN h : r[j] \in cells(h[j])}

FileOf(h, rows) == [exists |-> TRUE, cols |-> h, rows |-> rows]

Absent == [exists |-> FALSE, cols |-> <<>>, rows |-> <<>>]
EmptyFileOnDisk == [exists |-> TRUE, cols |-> <<>>, rows |-> <<>>]

\* headers for the column detection: every order of up to MaxCols names, over
\* one row that makes each column numeric or not
SniffNames == {N_lat, N_lng, PopupLat, CanonLon, N_plate, N_id, N_name}
SniffCells(name) == {T_10, T_x}

\* files for the validation of rows: up to MaxRows rows over coordinate texts
\* on a limit, just outside a limit, not numeric and empty
LoadHeaders == { <<N_lat, N_lng>>, <<N_lat, N_lng, N_name>>, <<CanonLat, CanonLon>>,
                 <<N_id, N_count>>, <<N_name, N_zip>>, <<N_lat, N_name>> }
LatTexts == {T_90, T_m91, T_x, T_empty}
LonTexts == {T_180, T_m181, T_x, T_empty}
LoadCells(name) ==
    IF name = N_name THEN {T_A}
    ELSE IF name = N_zip THEN {T_A, T_empty}
    ELSE IF name \in {N_lng, CanonLon, N_count} THEN LonTexts
    ELSE LatTexts

\* the files of the two paths in the render cycles
File_A == FileOf(<<PopupLat, PopupLon>>, << <<T_0, T_0>> >>)
File_B == FileOf(<<N_lat, N_lng, N_name>>, << <<T_10, T_20, T_A>>, <<T_91, T_20, T_B>> >>)
File_C == FileOf(<<PopupLat, PopupLon, N_zip>>, << <<T_10, T_10, T_A>> >>)
FilePool == {File_A, File_B, File_C, EmptyFileOnDisk}

\* arguments of validate_coordinates
ValidatorInputs ==
    {None, NaN, Inf(1), Inf(-1)}
    \cup {Num(n) : n \in {-181, -180, -91, -90, 0, 90, 91, 180, 181}}
    \cup {Str(t) : t \in {T_0, T_90, T_91, T_m91, T_180, T_m181, T_x, T_empty,
                          <<"n","a","n">>, <<"i","n","f">>, <<"-","i","n","f">>}}

(***************************************************************************)
(* State.                                                                  *)
(***************************************************************************)
VARIABLES
    files,      \* the content of the file at each of the two paths, or Absent
    cache,      \* the st.cache_data memo of parse_csv, per path
    cluster,    \* the "Cluster locations" checkbox
    fast_csv,   \* the "High-speed for large CSVs" checkbox
    out,        \* what the last run of main left on the page
    call        \* a direct call of parse_csv or validate_coordinates

vars == <<files, cache, cluster, fast_csv, out, call>>

NoPage ==
    Cycle("idle", TRUE, FALSE, Skipped, Skipped, NoMetrics, NoMap,
          NoChart, NoPreview, NoPreview)

NoCall == [fn |-> "none", file |-> Absent, lat |-> None, lon |-> None,
           done |-> FALSE, parsed |-> ParseRaised, accepted |-> FALSE]

AppIdle ==
    /\ files = [p \in Paths |-> Absent]
    /\ cache = [p \in Paths |-> NoEntry]
    /\ cluster = TRUE
    /\ fast_csv = FALSE
    /\ out = NoPage

Init == AppIdle /\ call = NoCall

(***************************************************************************)
(* The render cycles. Streamlit runs main when the session starts and on   *)
(* every interaction; a click on a checkbox sets it and reruns main.       *)
(***************************************************************************)
Shown(r, cl, fa) ==
    /\ out' = r.page
    /\ cache' = r.memo
    /\ cluster' = cl
    /\ fast_csv' = fa
    /\ UNCHANGED <<files, call>>

RunMain(cl, fa) == Shown(main(files, cache, cl, fa), cl, fa)

Rerun == RunMain(cluster, fast_csv)
ToggleCluster == out.stage # "idle" /\ RunMain(~cluster, fast_csv)
ToggleFast == out.stage # "idle" /\ RunMain(cluster, ~fast_csv)

\* the environment replaces or removes a file; the path does not change
WriteFile ==
    \E p \in Paths, f \in FilePool :
        /\ files[p] # f
        /\ files' = [files EXCEPT ![p] = f]
        /\ UNCHANGED <<cache, cluster, fast_csv, out, call>>

DeleteFile ==
    \E p \in Paths :
        /\ files[p].exists
        /\ files' = [files EXCEPT ![p] = Absent]
        /\ UNCHANGED <<cache, cluster, fast_csv, out, call>>

Next == Rerun \/ ToggleCluster \/ ToggleFast \/ WriteFile \/ DeleteFile

Spec == Init /\ [][Next]_vars

(***************************************************************************)
(* parse_csv called on one file.                                           *)
(***************************************************************************)
ParseCallOn(f) == [NoCall EXCEPT !.fn = "parse_csv", !.file = f]

InitLoad ==
    /\ AppIdle
    /\ \/ \E h \in HeadersUpTo(SniffNames, MaxCols) :
             \E rows \in SeqsUpTo(RowsFor(h, SniffCells), 1) :
                call = ParseCallOn(FileOf(h, rows))
       \/ \E h \in LoadHeaders :
             \E rows \in SeqsUpTo(RowsFor(h, LoadCells), MaxRows) :
                call = ParseCallOn(FileOf(h, rows))
       \/ call = ParseCallOn(EmptyFileOnDisk)

CallParse ==
    /\ call.fn = "parse_csv" /\ ~call.done
    /\ call' = [call EXCEPT !.done = TRUE, !.parsed = parse_csv(call.file)]
    /\ UNCHANGED <<files, cache, cluster, fast_csv, out>>

SpecLoad == InitLoad /\ [][CallParse]_vars

(***************************************************************************)
(* validate_coordinates called on one pair.                                *)
(***************************************************************************)
InitValidate ==
    /\ AppIdle
    /\ \E la \in ValidatorInputs, lo \in ValidatorInputs :
          call = [NoCall EXCEPT !.fn = "validate_coordinates", !.lat = la, !.lon = lo]

CallValidate ==
    /\ call.fn = "validate_coordinates" /\ ~call.done
    /\ call' = [call EXCEPT !.done = TRUE,
                            !.accepted = validate_coordinates(call.lat, call.lon)]
    /\ UNCHANGED <<files, cache, cluster, fast_csv, out>>

SpecValidate == InitValidate /\ [][CallValidate]_vars

(***************************************************************************)
(* Properties.                                                             *)
(***************************************************************************)
UrlRes == out.res[PATH_URL_CSV]
StoreRes == out.res[PATH_STORE_CSV]
OtherPath(p) == CHOOSE q \in Paths : q # p
LayerAt(p) == out.map.layers[IF p = PATH_URL_CSV THEN 1 ELSE 2]

\* C1: on a page with a composed map, the map is centred on the mean latitude
\* and the mean longitude of the records of both datasets pooled together
\* (of the one non-empty dataset when the other is empty).
C1_CentreIsPooledMean ==
    (out.stage = "done" /\ ~(FrameEmpty(UrlRes.valid) /\ FrameEmpty(StoreRes.valid)))
    => /\ MeanEq(out.map.center[1],
                 Mean(GetColumn(UrlRes.valid, CanonLat) \o GetColumn(StoreRes.valid, CanonLat)))
       /\ MeanEq(out.map.center[2],
                 Mean(GetColumn(UrlRes.valid, CanonLon) \o GetColumn(StoreRes.valid, CanonLon)))

\* C2: a dataset that fails to load (file missing, or the reader raising) does
\* not end the render cycle at the loading step: the other dataset is still
\* loaded and the failing one is an empty Dataset.
C2_LoadFailureIsolated ==
    \A p \in Paths :
        out.load[p] \in {"missing", "raised"}
        => /\ out.stage \notin {"load_url", "load_store"}
           /\ out.load[OtherPath(p)] # "skipped"
           /\ FrameEmpty(out.res[p].valid)

\* C3: every render cycle shows, for each dataset it loads, the result of
\* parsing the content the file has at that cycle.
C3_NeverStale ==
    [][\A p \in Paths :
          (files' = files /\ out'.stage # "idle" /\ out'.load[p] = "ok")
          => out'.res[p] = parse_csv(files'[p])]_vars

\* C4: with the high-speed setting off, every non-empty Dataset handed to the
\* map gets one marker per record, each with a popup that shows the record's
\* canonical latitude and longitude.
PopupShows(cols, row, popup) ==
    /\ \E i \in DOMAIN popup :
          popup[i] = Part("Latitude", Format6(RowGet(cols, row, CanonLat)))
    /\ \E i \in DOMAIN popup :
          popup[i] = Part("Longitude", Format6(RowGet(cols, row, CanonLon)))

C4_DetailedPopups ==
    \A p \in Paths :
        (/\ out.stage \in {"map", "done"}
         /\ ~out.fast_csv
         /\ ~FrameEmpty(out.res[p].valid))
        => /\ out.stage = "done"
           /\ LayerAt(p).mode = "detailed"
           /\ Len(LayerAt(p).markers) = FrameLen(out.res[p].valid)
           /\ \A i \in DOMAIN LayerAt(p).markers :
                 PopupShows(out.res[p].valid.columns, out.res[p].valid.rows[i],
                            LayerAt(p).markers[i].popup)

\* C5 (the case the claim singles out): when lat/lon resolve, each of the
\* names latitude and longitude labels exactly one column of the returned
\* Dataset, also when the input already has a column of that name.
C5_CanonicalNamesOnce ==
    (call.fn = "parse_csv" /\ call.done /\ ~call.parsed.raised
     /\ call.parsed.lat_col # NoCol)
    => /\ CountColumn(call.parsed.valid.columns, CanonLat) = 1
       /\ CountColumn(call.parsed.valid.columns, CanonLon) = 1

\* the index of a column of the file by its name
FileIdx(name) == CHOOSE j \in DOMAIN call.file.cols : call.file.cols[j] = name

\* the cell of data row i under the column named name, as read_csv hands it on
CellRead(i, name) == read_csv(call.file).df.rows[i][FileIdx(name)]

ParseReturned ==
    call.fn = "parse_csv" /\ call.done /\ ~call.parsed.raised

NumericInFile == {j \in DOMAIN call.file.cols : InfersNumeric(call.file, j)}
LowerHas(c, subs) == \E t \in subs : Contains(Lower(c), t)
NamedLat == {j \in DOMAIN call.file.cols : LowerHas(call.file.cols[j], {N_lat})}
NamedLon == {j \in DOMAIN call.file.cols :
               LowerHas(call.file.cols[j], {<<"l","o","n">>, N_lng})}
Lowest(S) == CHOOSE j \in S : \A h \in S : j <= h
StaysUnresolved ==
    (NamedLat = {} \/ NamedLon = {}) /\ Cardinality(NumericInFile) < 2

\* C7: on every return of the Loader, valid_count is the number of records
\* returned and valid_count + invalid_count is the number of data rows; when
\* lat/lon stay unresolved the Dataset is empty, valid_count is 0 and
\* invalid_count is the number of data rows.
C7_CountsAddUp ==
    ParseReturned
    => /\ call.parsed.valid_count = FrameLen(call.parsed.valid)
       /\ call.parsed.valid_count + call.parsed.invalid_count = Len(call.file.rows)
       /\ StaysUnresolved
          => /\ call.parsed.valid = EmptyFrame
             /\ call.parsed.valid_count = 0
             /\ call.parsed.invalid_count = Len(call.file.rows)

C7_Witness ==
    /\ ParseReturned /\ StaysUnresolved
    /\ call.parsed.invalid_count >= 1

\* C8: lat is the first column whose lowercased name contains "lat", lon the
\* first whose lowercased name contains "lon" or "lng"; when either is not
\* found by name, both are the first two numeric columns in order if there
\* are two, and both stay unresolved otherwise.
C8_Detection ==
    ParseReturned
    => IF NamedLat # {} /\ NamedLon # {}
       THEN /\ call.parsed.lat_col = call.file.cols[Lowest(NamedLat)]
            /\ call.parsed.lon_col = call.file.cols[Lowest(NamedLon)]
       ELSE IF Cardinality(NumericInFile) >= 2
       THEN /\ call.parsed.lat_col = call.file.cols[Lowest(NumericInFile)]
            /\ call.parsed.lon_col
                 = call.file.cols[Lowest(NumericInFile \ {Lowest(NumericInFile)})]
       ELSE call.parsed.lat_col = NoCol /\ call.parsed.lon_col = NoCol

\* a column found by name is given up for the first numeric column
C8_Witness ==
    /\ ParseReturned
    /\ NamedLat # {} /\ NamedLon = {}
    /\ call.parsed.lat_col # NoCol
    /\ call.parsed.lat_col # call.file.cols[Lowest(NamedLat)]

\* C9: validate_coordinates returns true exactly when both arguments convert
\* to finite numbers with -90 <= lat <= 90 and -180 <= lon <= 180, and false,
\* without raising, when a conversion fails.
FiniteWithin(x, limit) ==
    /\ ~PyFloat(x).raised
    /\ PyFloat(x).v.k = "num"
    /\ 0 - limit <= PyFloat(x).v.n /\ PyFloat(x).v.n <= limit

C9_ValidatorIff ==
    (call.fn = "validate_coordinates" /\ call.done)
    => (call.accepted <=> (FiniteWithin(call.lat, 90) /\ FiniteWithin(call.lon, 180)))

C9_Witness ==
    /\ call.fn = "validate_coordinates" /\ call.done
    /\ call.lat.k = "str" /\ call.lon = Num(-180)
    /\ call.accepted

\* C10: on a composed map, a non-empty dataset's layer is in fast mode when
\* the high-speed setting is on and in detailed mode when it is off, whatever
\* the cluster setting.
C10_FastSettingDecidesMode ==
    \A p \in Paths :
        (out.stage = "done" /\ ~FrameEmpty(out.res[p].valid))
        => LayerAt(p).mode = IF out.fast_csv THEN "fast" ELSE "detailed"

=============================================================================
